---- MODULE Spec2Model ----
(***************************************************************************)
(* A model of fake_ollama_server.py: the /api/chat request handler with    *)
(* its message-sequence validator and non-streaming translator, and the    *)
(* streaming translator with its line parser.                              *)
(*                                                                         *)
(* JSON documents are modelled as functions from key names to values, so   *)
(* that an absent key is a key outside the DOMAIN.  A slot that may hold   *)
(* null or an object is a tagged value (Null, Obj(f)).  Python's None      *)
(* result of a function is the empty sequence, a returned value v is <<v>>.*)
(***************************************************************************)
EXTENDS Integers, Sequences, FiniteSets, TLC

VARIABLES
    pc,             \* position of the request / the generator
    request,        \* the JSON body the caller sent to POST /api/chat
    messages,       \* the list object data["messages"], as it is now
    verdict,        \* what validate_message_sequence returned or raised
    response,       \* the HTTP response the caller receives
    payload,        \* request_payload forwarded upstream: <<>> or <<p>>
    upstream_calls, \* number of requests.post calls made for the request
    upstream,       \* what the non-streaming round trip gave: <<>> or <<u>>
    conn,           \* upstream streaming connection: "none", "open", "closed"
    upstatus,       \* outcome class of the upstream streaming request
    lines,          \* the upstream lines iter_lines() has yielded so far
    parsed,         \* parsed_response for each of those lines, in order
    out,            \* the chunks the generator has yielded so far
    written         \* the chunks the server has written to the caller, where
                    \* the consumer of the generator is followed step by step

vars == <<pc, request, messages, verdict, response, payload, upstream_calls,
          upstream, conn, upstatus, lines, parsed, out, written>>

----------------------------------------------------------------------------
(* Bounds *)

MaxTurns == 3
MaxLines == 3

----------------------------------------------------------------------------
(* Program constants *)

MODEL_CHAT == "deepseek-chat"
MODEL_REASONER == "deepseek-reasoner"

MODEL_ENDPOINTS ==
    (MODEL_CHAT :> "https://api.deepseek.com/v1/chat/completions")
    @@ (MODEL_REASONER :> "https://api.deepseek.com/chat/completions")

\* The empty JSON object {} (and a body that is no JSON object at all).
Empty == [k \in {} |-> 0]

Null == [t |-> "null"]
Obj(f) == [t |-> "object", f |-> f]
IsObj(v) == v.t = "object"

----------------------------------------------------------------------------
(* Inputs *)

Roles == {"user", "assistant", "system"}
Turns == [role : Roles, content : {"hi"}]

SeqsUpTo(S, n) == UNION {[1..k -> S] : k \in 0..n}

TurnLists == SeqsUpTo(Turns, MaxTurns)

\* "" stands for a missing, null or empty model field.
ModelNames == {"", MODEL_CHAT, MODEL_REASONER, "invalid-model"}

\* messages = <<>> stands for a missing, null or empty messages field.
Requests == [model : ModelNames, messages : TurnLists, stream : BOOLEAN]

----------------------------------------------------------------------------
(* validate_message_sequence *)

Accepted(msgs) ==
    [outcome |-> "accepted", code |-> "", at |-> <<>>, messages |-> msgs]

Rejected(code, at, msgs) ==
    [outcome |-> "rejected", code |-> code, at |-> at, messages |-> msgs]

\* An exception leaves the function: IndexError of messages[0].
Raised(exc, msgs) ==
    [outcome |-> "raised", code |-> exc, at |-> <<>>, messages |-> msgs]

\* A variant of CheckRoles that names the positions of a consecutive pair
\* one too high.
RECURSIVE CheckRoles_OffByOne(_, _, _)
CheckRoles_OffByOne(msgs, idx, prev_role) ==
    IF idx >= Len(msgs) THEN Accepted(msgs)
    ELSE LET role == msgs[idx + 1].role IN
         IF role \notin {"user", "assistant"}
         THEN Rejected("invalid_role", <<idx>>, msgs)
         ELSE IF role = prev_role
         THEN Rejected("consecutive_messages", <<idx, idx + 1>>, msgs)
         ELSE CheckRoles_OffByOne(msgs, idx + 1, role)

\* The for loop over enumerate(messages), from Python index idx on.
\* msgs[idx + 1] is Python's messages[idx]; prev_role "" is None.
RECURSIVE CheckRoles(_, _, _)
CheckRoles(msgs, idx, prev_role) ==
    IF idx >= Len(msgs) THEN Accepted(msgs)
    ELSE LET role == msgs[idx + 1].role IN
         IF role \notin {"user", "assistant"}
         THEN Rejected("invalid_role", <<idx>>, msgs)
         ELSE IF role = prev_role
         THEN Rejected("consecutive_messages", <<idx - 1, idx>>, msgs)
         ELSE CheckRoles(msgs, idx + 1, role)

\* messages.pop(0) when the first turn is not from the user.
PopLeading(msgs) ==
    IF msgs[1].role # "user" THEN Tail(msgs) ELSE msgs

\* A variant of validate_message_sequence without the model test: the rules
\* are enforced for every model.
validate_message_sequence_AllModels(msgs, model) ==
    IF msgs = <<>> THEN Rejected("invalid_messages", <<>>, msgs)
    ELSE LET popped == PopLeading(msgs) IN
         IF popped = <<>> THEN Raised("IndexError", popped)
         ELSE IF popped[1].role # "user"
         THEN Rejected("invalid_first_message", <<>>, popped)
         ELSE CheckRoles(popped, 0, "")

\* The result carries the list object as the call leaves it.
validate_message_sequence(msgs, model) ==
    IF model # MODEL_REASONER THEN Accepted(msgs)
    ELSE IF msgs = <<>> THEN Rejected("invalid_messages", <<>>, msgs)
    ELSE LET popped == PopLeading(msgs) IN
         IF popped = <<>> THEN Raised("IndexError", popped)
         ELSE IF popped[1].role # "user"
         THEN Rejected("invalid_first_message", <<>>, popped)
         ELSE CheckRoles(popped, 0, "")

----------------------------------------------------------------------------
(* handle_non_streaming_response *)

\* HTTP status codes the upstream may answer with.
StatusCodes == {200, 400, 404, 499, 500, 503}

\* The decoded body of a successful upstream reply.
UpstreamReplies ==
    [model : {MODEL_CHAT, MODEL_REASONER},
     message : [role : {"assistant"}, content : {"hello"}]]

JSONResponse(status, body) == [status |-> status, body |-> body, fault |-> ""]

\* An exception no handler catches: the framework answers 500 with a
\* plain-text body.
Unhandled(exc) == [status |-> 500, body |-> Empty, fault |-> exc]

\* What one requests.post round trip gives: no reply at all (sent = FALSE,
\* a transport-level exception), or a reply with its status code, whether
\* its body decodes to a document with choices[0].message and model, and
\* that document.
NoReply == [model |-> "", message |-> [role |-> "", content |-> ""]]

UpstreamResults ==
    [sent : {FALSE}, status_code : {0}, decodes : {FALSE}, reply : {NoReply}]
    \cup [sent : {TRUE}, status_code : StatusCodes \ {200}, decodes : {FALSE},
          reply : {NoReply}]
    \cup [sent : {TRUE}, status_code : {200}, decodes : {FALSE}, reply : {NoReply}]
    \cup [sent : {TRUE}, status_code : {200}, decodes : {TRUE},
          reply : UpstreamReplies]

\* response.raise_for_status(): HTTPError for 4xx and 5xx.
RaisesForStatus(status_code) == status_code >= 400 /\ status_code < 600

\* A variant of handle_non_streaming_response whose status test is <= 500.
handle_non_streaming_response_Le500(u) ==
    IF ~u.sent THEN JSONResponse(500, [error |-> "An error occurred"])
    ELSE IF RaisesForStatus(u.status_code)
    THEN JSONResponse(IF u.status_code <= 500 THEN 400 ELSE 500,
                      [error |-> "HTTP error occurred"])
    ELSE IF ~u.decodes THEN JSONResponse(500, [error |-> "An error occurred"])
    ELSE JSONResponse(200, [model |-> u.reply.model, message |-> u.reply.message,
                            done |-> TRUE])

handle_non_streaming_response(u) ==
    IF ~u.sent THEN JSONResponse(500, [error |-> "An error occurred"])
    ELSE IF RaisesForStatus(u.status_code)
    THEN JSONResponse(IF u.status_code < 500 THEN 400 ELSE 500,
                      [error |-> "HTTP error occurred"])
    ELSE IF ~u.decodes THEN JSONResponse(500, [error |-> "An error occurred"])
    ELSE JSONResponse(200, [model |-> u.reply.model, message |-> u.reply.message,
                            done |-> TRUE])

----------------------------------------------------------------------------
(* State *)

NoVerdict == [outcome |-> "none", code |-> "", at |-> <<>>, messages |-> <<>>]
NoResponse == [status |-> 0, body |-> Empty, fault |-> ""]
NoRequest == [model |-> "", messages |-> <<>>, stream |-> FALSE]

Init ==
    /\ pc = "idle"
    /\ request = NoRequest
    /\ messages = <<>>
    /\ verdict = NoVerdict
    /\ response = NoResponse
    /\ payload = <<>>
    /\ upstream_calls = 0
    /\ upstream = <<>>
    /\ conn = "none"
    /\ upstatus = "none"
    /\ lines = <<>>
    /\ parsed = <<>>
    /\ out = <<>>
    /\ written = <<>>

StreamVarsUnchanged ==
    UNCHANGED <<conn, upstatus, lines, parsed, out, written>>

----------------------------------------------------------------------------
(* chat: POST /api/chat *)

\* A variant of ChatMissingField that looks the endpoint up before the
\* presence check: a missing model is a KeyError.
ChatMissingField_LookupFirst(data) ==
    /\ data.model = "" \/ data.messages = <<>>
    /\ IF data.model \notin DOMAIN MODEL_ENDPOINTS
       THEN response' = Unhandled("KeyError") /\ pc' = "faulted"
       ELSE /\ response' = JSONResponse(400, [error |-> "model and messages are required"])
            /\ pc' = "responded"
    /\ UNCHANGED <<verdict, payload, upstream_calls, upstream>>

\* model or messages missing or empty: 400 before anything else.
ChatMissingField(data) ==
    /\ data.model = "" \/ data.messages = <<>>
    /\ response' = JSONResponse(400, [error |-> "model and messages are required"])
    /\ pc' = "responded"
    /\ UNCHANGED <<verdict, payload, upstream_calls, upstream>>

\* MODEL_ENDPOINTS[model] with a model that is no key: KeyError.
ChatUnknownModel(data) ==
    /\ data.model # "" /\ data.messages # <<>>
    /\ data.model \notin DOMAIN MODEL_ENDPOINTS
    /\ response' = Unhandled("KeyError")
    /\ pc' = "faulted"
    /\ UNCHANGED <<verdict, payload, upstream_calls, upstream>>

ChatKnown(data) ==
    /\ data.model # "" /\ data.messages # <<>>
    /\ data.model \in DOMAIN MODEL_ENDPOINTS

\* The validator raises: nothing in chat catches it.
ChatValidatorFault(data) ==
    /\ ChatKnown(data)
    /\ LET v == validate_message_sequence(data.messages, data.model) IN
       /\ v.outcome = "raised"
       /\ verdict' = v
       /\ response' = Unhandled(v.code)
       /\ pc' = "faulted"
    /\ UNCHANGED <<payload, upstream_calls, upstream>>

ChatRejected(data) ==
    /\ ChatKnown(data)
    /\ LET v == validate_message_sequence(data.messages, data.model) IN
       /\ v.outcome = "rejected"
       /\ verdict' = v
       /\ response' = JSONResponse(400, [error |-> "Invalid message sequence",
                                         code |-> v.code])
       /\ pc' = "responded"
    /\ UNCHANGED <<payload, upstream_calls, upstream>>

RequestPayload(data, msgs) ==
    [model |-> data.model, messages |-> msgs, stream |-> data.stream]

\* stream is true: the StreamingResponse is returned with status 200 and the
\* generator not yet started.
ChatStreaming(data) ==
    /\ ChatKnown(data)
    /\ data.stream
    /\ LET v == validate_message_sequence(data.messages, data.model) IN
       /\ v.outcome = "accepted"
       /\ verdict' = v
       /\ payload' = <<RequestPayload(data, v.messages)>>
    /\ response' = JSONResponse(200, Empty)
    /\ pc' = "streaming"
    /\ UNCHANGED <<upstream_calls, upstream>>

ChatNonStreaming(data) ==
    /\ ChatKnown(data)
    /\ ~data.stream
    /\ LET v == validate_message_sequence(data.messages, data.model) IN
       /\ v.outcome = "accepted"
       /\ verdict' = v
       /\ payload' = <<RequestPayload(data, v.messages)>>
    /\ \E u \in UpstreamResults :
         /\ upstream' = <<u>>
         /\ response' = handle_non_streaming_response(u)
    /\ upstream_calls' = upstream_calls + 1
    /\ pc' = "responded"

\* The list object after the handler: the validator is the only code that
\* touches it, and only on the path that reaches it.
MessagesAfter(data) ==
    IF data.model # "" /\ data.messages # <<>>
       /\ data.model \in DOMAIN MODEL_ENDPOINTS
    THEN validate_message_sequence(data.messages, data.model).messages
    ELSE data.messages

chat ==
    /\ pc = "idle"
    /\ \E data \in Requests :
         /\ request' = data
         /\ messages' = MessagesAfter(data)
         /\ \/ ChatMissingField(data)
            \/ ChatUnknownModel(data)
            \/ ChatValidatorFault(data)
            \/ ChatRejected(data)
            \/ ChatStreaming(data)
            \/ ChatNonStreaming(data)
    /\ StreamVarsUnchanged

Next == chat

Spec == Init /\ [][Next]_vars

----------------------------------------------------------------------------
(* validate_message_sequence called on its own *)

ValidatorModels == {MODEL_CHAT, MODEL_REASONER}

ValidateInit ==
    /\ pc = "calling"
    /\ request \in [model : ValidatorModels, messages : TurnLists,
                    stream : {FALSE}]
    /\ messages = request.messages
    /\ verdict = NoVerdict
    /\ response = NoResponse
    /\ payload = <<>>
    /\ upstream_calls = 0
    /\ upstream = <<>>
    /\ conn = "none"
    /\ upstatus = "none"
    /\ lines = <<>>
    /\ parsed = <<>>
    /\ out = <<>>
    /\ written = <<>>

Validate ==
    /\ pc = "calling"
    /\ LET v == validate_message_sequence(messages, request.model) IN
       /\ verdict' = v
       /\ messages' = v.messages
    /\ pc' = "validated"
    /\ UNCHANGED <<request, response, payload, upstream_calls, upstream>>
    /\ StreamVarsUnchanged

ValidateNext == Validate

SpecValidate == ValidateInit /\ [][ValidateNext]_vars

----------------------------------------------------------------------------
(* Upstream lines *)

\* A line is its bytes in two parts: whether it starts with DATA_PREFIX
\* ("data: ") and what follows.  What follows is the text "[DONE]", text
\* that is no JSON ("text"), or a JSON document given by its decoded value.
Line(prefix, kind, value) ==
    [prefix |-> prefix, payload |-> [kind |-> kind, value |-> value]]

DONE_MARKER == Line(TRUE, "DONE", Null)
DataLine(value) == Line(TRUE, "json", value)

\* An optional key: absent when o = <<>>, holding o[1] otherwise.
Opt(key, o) == IF Len(o) = 0 THEN Empty ELSE key :> o[1]

Delta(content, reasoning) ==
    Obj(Opt("content", content) @@ Opt("reasoning", reasoning))

Choice(delta, finish_reason) ==
    Obj(Opt("delta", delta) @@ Opt("finish_reason", finish_reason))

Usage(total_tokens, prompt_tokens) ==
    Obj(Opt("total_tokens", total_tokens) @@ Opt("prompt_tokens", prompt_tokens))

UpstreamChunk(model, choices, usage) ==
    Obj(Opt("model", model) @@ Opt("choices", choices) @@ Opt("usage", usage))

Thinking == Obj("output" :> "r")

\* Lines no chunk is expected from.
FramingLines ==
    { DONE_MARKER,
      Line(FALSE, "text", Null),                       \* blank, comment
      Line(TRUE, "text", Null),                        \* data: {bad
      DataLine([t |-> "array"]),                       \* data: [1]
      DataLine(UpstreamChunk(<<MODEL_CHAT>>, <<>>, <<>>)),        \* no choices
      DataLine(UpstreamChunk(<<MODEL_CHAT>>, << <<>> >>, <<>>)) } \* choices: []

\* Incremental lines: content and reasoning text of both models.
DeltaLines ==
    { DataLine(UpstreamChunk(<<MODEL_CHAT>>,
                 << <<Choice(<<Delta(c, <<>>)>>, <<"length">>)>> >>, <<>>))
        : c \in {<<>>, <<"">>, <<"a">>} }
    \cup
    { DataLine(UpstreamChunk(<<MODEL_REASONER>>,
                 << <<Choice(<<Delta(c, <<Thinking>>)>>, <<"length">>)>> >>, <<>>))
        : c \in {<<>>, <<"">>, <<"a">>} }
    \cup
    { DataLine(UpstreamChunk(<<MODEL_CHAT>>,
                 << <<Choice(<<Delta(<<>>, <<Thinking>>)>>, <<"length">>)>> >>, <<>>)),
      DataLine(UpstreamChunk(<<MODEL_REASONER>>,
                 << <<Choice(<<Delta(<<"b">>, <<>>)>>, <<>>)>> >>, <<>>)),
      DataLine(UpstreamChunk(<<>>, << <<Choice(<<>>, <<>>)>> >>, <<>>)),
      DataLine(UpstreamChunk(<<MODEL_CHAT>>,
                 << <<Choice(<<Null>>, <<"length">>)>> >>, <<>>)) }

\* Terminal lines (finish_reason "stop") with the usage object in each shape.
Usages ==
    { <<>>, <<Null>>, <<Usage(<<>>, <<>>)>>, <<Usage(<<42>>, <<>>)>>,
      <<Usage(<<42>>, <<10>>)>> }

StopLines ==
    { DataLine(UpstreamChunk(<<MODEL_CHAT>>,
                 << <<Choice(<<Delta(<<"a">>, <<>>)>>, <<"stop">>)>> >>, u))
        : u \in Usages }
    \cup
    { DataLine(UpstreamChunk(<<MODEL_REASONER>>,
                 << <<Choice(<<Delta(<<>>, <<Thinking>>)>>, <<"stop">>)>> >>,
                 <<Usage(<<7>>, <<3>>)>>)) }

Lines == FramingLines \cup DeltaLines \cup StopLines

\* The body of an upstream reply with an error status: a JSON error
\* document, no event stream.
ErrorBodyLines ==
    { Line(FALSE, "json", Obj("error" :> "upstream")), Line(FALSE, "text", Null) }

----------------------------------------------------------------------------
(* parse_response_line *)

\* dict.get(key, default)
Get(f, key, default) == IF key \in DOMAIN f THEN f[key] ELSE default

\* The reasoning_steps list built for the reasoner model; <<"raised">> when
\* delta["reasoning"] is no object (AttributeError).
ReasoningSteps(model, delta) ==
    IF model # MODEL_REASONER THEN <<>>
    ELSE LET reasoning == Get(delta, "reasoning", Obj(Empty)) IN
         IF ~IsObj(reasoning) THEN <<"raised">>
         ELSE LET reasoning_content == Get(reasoning.f, "output", "") IN
              IF reasoning_content # "" THEN <<reasoning_content>> ELSE <<>>

Message(content) == [role |-> "assistant", content |-> content, images |-> "null"]

\* A variant of Output that attaches the token counts whatever done is.
Output_CountsAlways(model, content, done) ==
    [model |-> model, message |-> Message(content), done |-> done,
     eval_count |-> 0, prompt_eval_count |-> 0]

\* output, before and after output.update(...) of the done branch.
Output(model, content, done) ==
    [model |-> model, message |-> Message(content), done |-> done]

OutputWithCounts(model, content, done, eval_count, prompt_eval_count) ==
    [model |-> model, message |-> Message(content), done |-> done,
     eval_count |-> eval_count, prompt_eval_count |-> prompt_eval_count]

\* From choice = choices[0] on.  Every exception is caught and gives None.
ParseChoice(response_data, model, choice) ==
    IF ~IsObj(choice) THEN <<>>
    ELSE LET delta == Get(choice.f, "delta", Obj(Empty)) IN
    IF ~IsObj(delta) THEN <<>>
    ELSE LET content == Get(delta.f, "content", "")
             reasoning_steps == ReasoningSteps(model, delta.f)
             done == Get(choice.f, "finish_reason", "") = "stop"
         IN
    IF reasoning_steps = <<"raised">> THEN <<>>
    ELSE IF ~done THEN <<Output(model, content, done)>>
    ELSE LET usage == Get(response_data, "usage", Obj(Empty)) IN
         IF ~IsObj(usage) THEN <<>>
         ELSE <<OutputWithCounts(model, content, done,
                                 Get(usage.f, "total_tokens", 0),
                                 Get(usage.f, "prompt_tokens", 0))>>

\* not choices: an absent key defaults to [], an empty list is falsy.
NoChoices(choices) == choices = <<>>

\* A variant of parse_response_line without the "if not choices" return: a
\* line with no choices gives a chunk of defaults.
parse_response_line_NoChoicesKept(line) ==
    IF line = DONE_MARKER THEN <<>>
    ELSE IF ~line.prefix THEN <<>>
    ELSE IF line.payload.kind # "json" THEN <<>>
    ELSE LET response_data == line.payload.value IN
         IF ~IsObj(response_data) THEN <<>>
         ELSE LET model == Get(response_data.f, "model", "")
                  choices == Get(response_data.f, "choices", <<>>)
              IN IF NoChoices(choices) THEN <<Output(model, "", FALSE)>>
                 ELSE ParseChoice(response_data.f, model, choices[1])

parse_response_line(line) ==
    IF line = DONE_MARKER THEN <<>>
    ELSE IF ~line.prefix THEN <<>>
    ELSE IF line.payload.kind # "json" THEN <<>>      \* json.loads raises
    ELSE LET response_data == line.payload.value IN
         IF ~IsObj(response_data) THEN <<>>
         ELSE LET model == Get(response_data.f, "model", "")
                  choices == Get(response_data.f, "choices", <<>>)
              IN IF NoChoices(choices) THEN <<>>
                 ELSE ParseChoice(response_data.f, model, choices[1])

----------------------------------------------------------------------------
(* generate_streaming_response *)

StreamOutcomes == {"ok", "client_error", "server_error", "transport_failure"}

StreamRequests ==
    [model : {MODEL_CHAT, MODEL_REASONER},
     messages : {<<[role |-> "user", content |-> "hi"]>>},
     stream : {TRUE}]

\* chat has returned the StreamingResponse of an accepted streaming request.
StreamInit ==
    /\ pc = "streaming"
    /\ request \in StreamRequests
    /\ messages = request.messages
    /\ verdict = validate_message_sequence(request.messages, request.model)
    /\ response = JSONResponse(200, Empty)
    /\ payload = <<RequestPayload(request, messages)>>
    /\ upstream_calls = 0
    /\ upstream = <<>>
    /\ conn = "none"
    /\ upstatus = "none"
    /\ lines = <<>>
    /\ parsed = <<>>
    /\ out = <<>>
    /\ written = <<>>

ChatVarsUnchanged ==
    UNCHANGED <<request, messages, verdict, response, payload, upstream>>

\* The first next() of the generator: requests.post(..., stream=True).  The
\* response has started with status 200; the status of the upstream reply is
\* not looked at.
GenStart ==
    /\ pc = "streaming"
    /\ \E outcome \in StreamOutcomes :
         /\ upstatus' = outcome
         /\ IF outcome = "transport_failure"
            THEN pc' = "broken" /\ conn' = conn
            ELSE pc' = "reading" /\ conn' = "open"
    /\ upstream_calls' = upstream_calls + 1
    /\ UNCHANGED <<lines, parsed, out>>
    /\ ChatVarsUnchanged
    /\ UNCHANGED written

UpstreamLines == IF upstatus = "ok" THEN Lines ELSE ErrorBodyLines

\* A variant of the truth test that also takes a chunk with empty content
\* for falsy.
Truthy_ContentOnly(parsed_response) ==
    parsed_response # <<>> /\ parsed_response[1].message.content # ""

\* if parsed_response: None is falsy, a chunk is a non-empty dict.
Truthy(parsed_response) == parsed_response # <<>>

\* One turn of the for loop: the next line, parsed, and yielded if truthy.
GenLine ==
    /\ pc = "reading"
    /\ Len(lines) < MaxLines
    /\ \E line \in UpstreamLines :
         LET parsed_response == parse_response_line(line) IN
         /\ lines' = Append(lines, line)
         /\ parsed' = Append(parsed, parsed_response)
         /\ out' = IF Truthy(parsed_response) THEN out \o parsed_response ELSE out
    /\ UNCHANGED <<pc, conn, upstatus, upstream_calls>>
    /\ ChatVarsUnchanged
    /\ UNCHANGED written

\* A variant of GenEnd that yields a final done chunk of its own when the
\* upstream closes.
GenEnd_FinalMarker ==
    /\ pc = "reading"
    /\ pc' = "done"
    /\ conn' = "closed"
    /\ out' = Append(out, OutputWithCounts(request.model, "", TRUE, 0, 0))
    /\ UNCHANGED <<upstatus, upstream_calls, lines, parsed>>
    /\ ChatVarsUnchanged
    /\ UNCHANGED written

\* iter_lines() is exhausted: the with block closes the response.
GenEnd ==
    /\ pc = "reading"
    /\ pc' = "done"
    /\ conn' = "closed"
    /\ UNCHANGED <<upstatus, upstream_calls, lines, parsed, out>>
    /\ ChatVarsUnchanged
    /\ UNCHANGED written

StreamNext == GenStart \/ GenLine \/ GenEnd

SpecStream == StreamInit /\ [][StreamNext]_vars

----------------------------------------------------------------------------
(* generate_streaming_response: every way out of the with block *)

\* One line of each kind the loop treats differently: the sentinel, a line
\* whose JSON does not parse, an incremental line and a terminal line.
CleanupLines ==
    { DONE_MARKER,
      Line(TRUE, "text", Null),
      DataLine(UpstreamChunk(<<MODEL_CHAT>>,
                 << <<Choice(<<Delta(<<"a">>, <<>>)>>, <<"length">>)>> >>, <<>>)),
      DataLine(UpstreamChunk(<<MODEL_CHAT>>,
                 << <<Choice(<<Delta(<<"a">>, <<>>)>>, <<"stop">>)>> >>,
                 <<Usage(<<42>>, <<10>>)>>)) }

\* The loop body of GenLine over the lines of this section.
GenLineCleanup ==
    /\ pc = "reading"
    /\ Len(lines) < MaxLines
    /\ \E line \in (IF upstatus = "ok" THEN CleanupLines ELSE ErrorBodyLines) :
         LET parsed_response == parse_response_line(line) IN
         /\ lines' = Append(lines, line)
         /\ parsed' = Append(parsed, parsed_response)
         /\ out' = IF Truthy(parsed_response) THEN out \o parsed_response ELSE out
    /\ UNCHANGED <<pc, conn, upstatus, upstream_calls>>
    /\ ChatVarsUnchanged
    /\ UNCHANGED written

\* response.iter_lines() raises while iterating: the exception leaves the
\* with block, which closes the response, and ends the generator.
GenUpstreamError ==
    /\ pc = "reading"
    /\ pc' = "broken"
    /\ conn' = "closed"
    /\ UNCHANGED <<upstatus, upstream_calls, lines, parsed, out>>
    /\ ChatVarsUnchanged
    /\ UNCHANGED written

\* The caller disconnects: the server stops asking the generator for
\* chunks and lets go of it, started or not.
CallerDisconnect ==
    /\ pc \in {"streaming", "reading"}
    /\ pc' = "abandoned"
    /\ UNCHANGED <<conn, upstatus, upstream_calls, lines, parsed, out>>
    /\ ChatVarsUnchanged
    /\ UNCHANGED written

\* A variant of GenClose for a generator that holds the response without a
\* with block: closing the generator leaves the connection as it is.
GenClose_Leaks ==
    /\ pc = "abandoned"
    /\ pc' = "finalized"
    /\ UNCHANGED <<conn, upstatus, upstream_calls, lines, parsed, out>>
    /\ ChatVarsUnchanged
    /\ UNCHANGED written

\* The abandoned generator is closed when it is released: GeneratorExit is
\* raised at the yield, the with block exits and closes the response.  A
\* generator that never started has no response to close.
GenClose ==
    /\ pc = "abandoned"
    /\ pc' = "finalized"
    /\ conn' = IF conn = "open" THEN "closed" ELSE conn
    /\ UNCHANGED <<upstatus, upstream_calls, lines, parsed, out>>
    /\ ChatVarsUnchanged
    /\ UNCHANGED written

CleanupNext ==
    \/ GenStart
    \/ GenLineCleanup
    \/ GenEnd
    \/ GenUpstreamError
    \/ CallerDisconnect
    \/ GenClose

\* The runtime closes a generator it has let go of.
SpecCleanup == StreamInit /\ [][CleanupNext]_vars /\ WF_vars(GenClose)

----------------------------------------------------------------------------
(* generate_streaming_response driven by its consumer *)

\* The generator runs only inside a next() call of the StreamingResponse
\* that wraps it, and is suspended at its yield in between.  pc is
\* "reading" while a next() call is running the for loop, "yielded" when the
\* generator is suspended with a chunk handed over and not yet written, and
\* "suspended" when that chunk has been written and the next one has not
\* been asked for.

\* A variant of GenReadLine for a producer that does not wait at the yield:
\* it goes on reading while a chunk is still to be written.
GenReadLine_Eager ==
    /\ pc \in {"reading", "yielded"}
    /\ Len(lines) < MaxLines
    /\ \E line \in (IF upstatus = "ok" THEN CleanupLines ELSE ErrorBodyLines) :
         LET parsed_response == parse_response_line(line) IN
         /\ lines' = Append(lines, line)
         /\ parsed' = Append(parsed, parsed_response)
         /\ IF Truthy(parsed_response)
            THEN out' = out \o parsed_response /\ pc' = "yielded"
            ELSE out' = out /\ pc' = pc
    /\ UNCHANGED <<conn, upstatus, upstream_calls, written>>
    /\ ChatVarsUnchanged

\* One turn of the for loop inside a next() call: the next line is read and
\* parsed; a truthy result is yielded, which suspends the generator, and a
\* falsy one lets the loop go on to the following line.
GenReadLine ==
    /\ pc = "reading"
    /\ Len(lines) < MaxLines
    /\ \E line \in (IF upstatus = "ok" THEN CleanupLines ELSE ErrorBodyLines) :
         LET parsed_response == parse_response_line(line) IN
         /\ lines' = Append(lines, line)
         /\ parsed' = Append(parsed, parsed_response)
         /\ IF Truthy(parsed_response)
            THEN out' = out \o parsed_response /\ pc' = "yielded"
            ELSE out' = out /\ pc' = pc
    /\ UNCHANGED <<conn, upstatus, upstream_calls, written>>
    /\ ChatVarsUnchanged

\* The StreamingResponse writes the chunk it was handed to the caller; this
\* takes as long as the caller takes to read.
ResponseWrite ==
    /\ pc = "yielded"
    /\ written' = Append(written, out[Len(out)])
    /\ pc' = "suspended"
    /\ UNCHANGED <<conn, upstatus, upstream_calls, lines, parsed, out>>
    /\ ChatVarsUnchanged

\* The StreamingResponse asks for the next chunk: the generator resumes
\* after its yield, at the head of the for loop.
GenResume ==
    /\ pc = "suspended"
    /\ pc' = "reading"
    /\ UNCHANGED <<conn, upstatus, upstream_calls, lines, parsed, out, written>>
    /\ ChatVarsUnchanged

ConsumerNext ==
    \/ GenStart
    \/ GenReadLine
    \/ ResponseWrite
    \/ GenResume
    \/ GenEnd

SpecConsumer == StreamInit /\ [][ConsumerNext]_vars

----------------------------------------------------------------------------
(* Properties of the streaming translator (SpecStream) *)

IsData(line) == line.prefix /\ line.payload.kind = "json"
IsDataObject(line) == IsData(line) /\ IsObj(line.payload.value)
Top(line) == line.payload.value.f
HasChoices(line) ==
    IsDataObject(line) /\ "choices" \in DOMAIN Top(line) /\ Top(line).choices # <<>>
FirstChoice(line) == Top(line).choices[1]

\* A data line with non-empty choices whose first choice is an object with
\* delta absent or an object, and delta.reasoning absent or an object.
WellFormed(line) ==
    /\ HasChoices(line)
    /\ IsObj(FirstChoice(line))
    /\ "delta" \in DOMAIN FirstChoice(line).f =>
         /\ IsObj(FirstChoice(line).f.delta)
         /\ "reasoning" \in DOMAIN FirstChoice(line).f.delta.f =>
              IsObj(FirstChoice(line).f.delta.f.reasoning)

FinishReason(line) == Get(FirstChoice(line).f, "finish_reason", "")
DeltaOf(line) == Get(FirstChoice(line).f, "delta", Obj(Empty)).f
ContentOf(line) == Get(DeltaOf(line), "content", "")
ReasoningOutputOf(line) ==
    Get(Get(DeltaOf(line), "reasoning", Obj(Empty)).f, "output", "")

\* C1: once a chunk with done = true has been emitted the stream ends: a
\* done chunk is the last chunk of the output, so there is at most one.
C1_DoneChunkIsLast ==
    \A i \in 1..Len(out) : out[i].done => i = Len(out)

\* C6: for a data line of the reasoner model whose delta.content is absent
\* or empty and whose delta.reasoning.output is a non-empty string, the
\* emitted chunk's message.content is that reasoning output.
C6_ReasoningFallback ==
    \A i \in 1..Len(lines) :
        ( /\ WellFormed(lines[i])
          /\ Get(Top(lines[i]), "model", "") = MODEL_REASONER
          /\ ContentOf(lines[i]) = ""
          /\ ReasoningOutputOf(lines[i]) # "" )
        => /\ Len(parsed[i]) = 1
           /\ parsed[i][1].message.content = ReasoningOutputOf(lines[i])

\* C7: when the upstream request of a streaming call fails, the caller gets
\* a failed response with an error: 400 for an upstream client error, 500
\* for an upstream server error or a transport failure; never 200.
C7_UpstreamFailureSurfaced ==
    /\ upstatus = "client_error" =>
         response.status = 400 /\ "error" \in DOMAIN response.body
    /\ upstatus \in {"server_error", "transport_failure"} =>
         response.status = 500 /\ "error" \in DOMAIN response.body

\* The lines the claim calls skipped: the sentinel, a line without the data
\* prefix, and a data line whose remainder is malformed JSON, no JSON object,
\* or an object with an absent or empty choices list.
Skipped(line) ==
    \/ line = DONE_MARKER
    \/ ~line.prefix
    \/ line.prefix /\ line.payload.kind # "json"
    \/ IsData(line) /\ ~IsObj(line.payload.value)
    \/ IsDataObject(line) /\ ~HasChoices(line)

RECURSIVE WithoutSkipped(_)
WithoutSkipped(ls) ==
    IF ls = <<>> THEN <<>>
    ELSE IF Skipped(Head(ls)) THEN WithoutSkipped(Tail(ls))
    ELSE <<Head(ls)>> \o WithoutSkipped(Tail(ls))

\* The whole output of the generator for a line sequence.
RECURSIVE StreamOf(_)
StreamOf(ls) ==
    IF ls = <<>> THEN <<>>
    ELSE LET parsed_response == parse_response_line(Head(ls)) IN
         (IF Truthy(parsed_response) THEN parsed_response ELSE <<>>)
         \o StreamOf(Tail(ls))

\* C8: a skipped line yields no chunk and ends nothing: the output is the
\* output for the line sequence with the skipped lines removed, and the
\* generator is still reading after one.
C8_SkippedLinesTransparent ==
    /\ \A i \in 1..Len(lines) : Skipped(lines[i]) => parsed[i] = <<>>
    /\ out = StreamOf(WithoutSkipped(lines))
    /\ lines # <<>> => pc \in {"reading", "done"}

C8_Witness ==
    \E i, j \in 1..Len(lines) :
        /\ i < j
        /\ Skipped(lines[i])
        /\ ~Skipped(lines[j])
        /\ parsed[j] # <<>>
        /\ out # <<>>

ChunkKeys == {"model", "message", "done"}
CountKeys == {"eval_count", "prompt_eval_count"}

\* C9: every emitted chunk carries model, message and done, and carries
\* eval_count and prompt_eval_count exactly when done is true; a well-formed
\* data line whose finish_reason is not "stop" gives exactly one chunk, with
\* done = false and neither count.
C9_CountsIffDone ==
    /\ \A k \in 1..Len(out) :
          /\ ChunkKeys \subseteq DOMAIN out[k]
          /\ \A key \in CountKeys : key \in DOMAIN out[k] <=> out[k].done
    /\ \A i \in 1..Len(lines) :
          (WellFormed(lines[i]) /\ FinishReason(lines[i]) # "stop")
          => /\ Len(parsed[i]) = 1
             /\ parsed[i][1].done = FALSE
             /\ DOMAIN parsed[i][1] = ChunkKeys

C9_Witness ==
    /\ \E k \in 1..Len(out) : out[k].done /\ "eval_count" \in DOMAIN out[k]
    /\ \E i \in 1..Len(lines) :
          /\ WellFormed(lines[i])
          /\ FinishReason(lines[i]) # "stop"
          /\ parsed[i] # <<>>
          /\ parsed[i][1] \in {out[k] : k \in 1..Len(out)}

\* usage.<field>, 0 when the usage object or the field is missing.
UsageCount(line, field) ==
    LET usage == Get(Top(line), "usage", Obj(Empty)) IN
    IF IsObj(usage) THEN Get(usage.f, field, 0) ELSE 0

\* C10: a data line with non-empty choices and finish_reason "stop" gives
\* exactly one chunk, with done = true, eval_count = usage.total_tokens and
\* prompt_eval_count = usage.prompt_tokens, each 0 when the usage object or
\* the field is missing; the chunk is never dropped for want of usage data.
C10_TerminalChunkCounts ==
    \A i \in 1..Len(lines) :
        (WellFormed(lines[i]) /\ FinishReason(lines[i]) = "stop")
        => /\ Len(parsed[i]) = 1
           /\ parsed[i][1].done
           /\ parsed[i][1].eval_count = UsageCount(lines[i], "total_tokens")
           /\ parsed[i][1].prompt_eval_count = UsageCount(lines[i], "prompt_tokens")

RECURSIVE Concat(_)
Concat(ss) == IF ss = <<>> THEN <<>> ELSE Head(ss) \o Concat(Tail(ss))

\* The Line Parser's result for each line of a sequence, in order.
ParserResults(ls) == [i \in 1..Len(ls) |-> parse_response_line(ls[i])]

\* C11: the output is the in-order concatenation of the Line Parser's
\* results over the lines read: one chunk for each line the parser does not
\* skip, in arrival order, none reordered, duplicated or lost.
C11_ChunksInLineOrder ==
    /\ out = Concat(ParserResults(lines))
    /\ \A i \in 1..Len(lines) : Len(parse_response_line(lines[i])) <= 1
    /\ Len(out) =
         Cardinality({i \in 1..Len(lines) : parse_response_line(lines[i]) # <<>>})

C11_Witness ==
    /\ Len(lines) = 3
    /\ parsed[2] = <<>>
    /\ Len(out) = 2
    /\ out[1] # out[2]
    /\ out[1] = parsed[1][1]
    /\ out[2] = parsed[3][1]

\* The text a sequence of content strings spells.
RECURSIVE Joined(_)
Joined(cs) == IF cs = <<>> THEN "" ELSE Head(cs) \o Joined(Tail(cs))

\* One complete assistant turn: well-formed lines, every line but the last
\* an incremental delta, the last one the terminal line.
CompleteTurn(ls) ==
    /\ ls # <<>>
    /\ \A i \in 1..Len(ls) : WellFormed(ls[i])
    /\ \A i \in 1..(Len(ls) - 1) : FinishReason(ls[i]) # "stop"
    /\ FinishReason(ls[Len(ls)]) = "stop"

\* C12: when the lines read are one complete assistant turn, the chunks'
\* contents spell the upstream delta contents, and there is exactly one
\* chunk with done = true, the last one.
C12_RoundTrip ==
    CompleteTurn(lines)
    => /\ Joined([k \in 1..Len(out) |-> out[k].message.content])
            = Joined([i \in 1..Len(lines) |-> ContentOf(lines[i])])
       /\ out # <<>>
       /\ \A k \in 1..Len(out) : out[k].done <=> k = Len(out)

HasStopLine(ls) ==
    \E i \in 1..Len(ls) :
        HasChoices(ls[i]) /\ IsObj(FirstChoice(ls[i])) /\ FinishReason(ls[i]) = "stop"

HasDoneChunk(cs) == \E k \in 1..Len(cs) : cs[k].done

\* C13: the translator adds no final marker: the output holds a done = true
\* chunk only if some upstream line carried finish_reason "stop", and when
\* the upstream has closed the output is what the lines read gave, no more.
C13_NoInjectedMarker ==
    /\ HasDoneChunk(out) => HasStopLine(lines)
    /\ pc = "done" => conn = "closed" /\ out = Concat(parsed)

C13_Witness ==
    /\ pc = "done"
    /\ out # <<>>
    /\ ~HasStopLine(lines)
    /\ ~HasDoneChunk(out)

\* C16: in a streaming response for the reasoner model every chunk with
\* done = true contains a reasoning_metrics field.
C16_ReasoningMetricsOnDone ==
    request.model = MODEL_REASONER
    => \A k \in 1..Len(out) : out[k].done => "reasoning_metrics" \in DOMAIN out[k]

----------------------------------------------------------------------------
(* Properties of the generator's exits (SpecCleanup) *)

Terminated == pc \in {"done", "broken", "abandoned", "finalized"}

\* C20: a connection the generator opened is closed on every way out: when
\* the upstream stream ends, after lines that fail to parse, when iterating
\* raises, and, once the generator is released, when the caller has
\* disconnected; no ended request keeps its connection open.
C20_ConnectionClosed ==
    /\ [](pc \in {"done", "broken", "finalized"} => conn # "open")
    /\ [](Terminated => <>(conn # "open"))

C20_Witness ==
    /\ pc = "finalized"
    /\ conn = "closed"
    /\ \E i \in 1..Len(lines) : lines[i] = Line(TRUE, "text", Null)
    /\ out # <<>>

----------------------------------------------------------------------------
(* Properties of the consumer-driven generator (SpecConsumer) *)

\* The chunks yielded by the generator and not yet written to the caller.
Pending == Len(out) - Len(written)

ReadsLine == Len(lines') > Len(lines)

\* C21: streaming is incremental and back-pressured.  What has been written
\* to the caller is always a prefix of what the generator has yielded, at
\* most one yielded chunk is waiting to be written, and an upstream line is
\* read only inside a next() call of the consumer with no chunk waiting: a
\* chunk is handed over before the next line is read, and while the caller
\* is slow to take it no further line is read.
C21_Backpressure ==
    /\ [](/\ Pending \in {0, 1}
          /\ written = SubSeq(out, 1, Len(written))
          /\ (pc = "yielded") = (Pending = 1))
    /\ [][ReadsLine => (pc = "reading" /\ Pending = 0)]_vars

\* A chunk has been written, further lines were read after it, and a second
\* chunk is now waiting for the caller.
C21_Witness ==
    /\ pc = "yielded"
    /\ Len(written) >= 1
    /\ Pending = 1
    /\ Len(lines) = MaxLines
    /\ ~Truthy(parsed[2])

----------------------------------------------------------------------------
(* Properties of the validator (SpecValidate) *)

\* C2: for the reasoner model, a non-empty list whose first turn is not
\* from the user is rejected with code invalid_first_message, whatever
\* follows the first turn.
C2_NonUserFirstRejected ==
    ( /\ pc = "validated"
      /\ request.model = MODEL_REASONER
      /\ request.messages # <<>>
      /\ request.messages[1].role # "user" )
    => verdict.outcome = "rejected" /\ verdict.code = "invalid_first_message"

\* C3: the validator does not change the list it is given: after the call
\* the list holds the same turns in the same order, accepted or rejected.
C3_InputNotMutated ==
    pc = "validated" => messages = request.messages

Validated(model) == pc = "validated" /\ request.model = model

\* C17: for the chat model the validator accepts every non-empty list,
\* whatever the roles and their order.
C17_ChatModelUnchecked ==
    (Validated(MODEL_CHAT) /\ request.messages # <<>>)
    => verdict.outcome = "accepted"

C17_Witness ==
    /\ Validated(MODEL_CHAT)
    /\ Len(request.messages) >= 2
    /\ request.messages[1].role = "system"
    /\ request.messages[2].role = "system"
    /\ verdict.outcome = "accepted"

\* Python positions i (1 <= i < len) whose turn has the role of the turn
\* before it.
RepeatPositions(msgs) ==
    {i \in 1..(Len(msgs) - 1) : msgs[i + 1].role = msgs[i].role}

Least(S) == CHOOSE i \in S : \A j \in S : i <= j

\* C18: for the reasoner model the empty list is rejected with
\* invalid_messages; a list of user/assistant turns that starts with a user
\* turn is accepted iff no two consecutive turns share a role, and is
\* otherwise rejected with consecutive_messages naming positions i-1 and i
\* of the first such pair in the list the caller passed.
C18_AlternationRule ==
    Validated(MODEL_REASONER) =>
      LET msgs == request.messages IN
      /\ msgs = <<>> =>
           verdict.outcome = "rejected" /\ verdict.code = "invalid_messages"
      /\ ( /\ msgs # <<>>
           /\ msgs[1].role = "user"
           /\ \A i \in 1..Len(msgs) : msgs[i].role \in {"user", "assistant"} )
         => IF RepeatPositions(msgs) = {}
            THEN verdict.outcome = "accepted"
            ELSE /\ verdict.outcome = "rejected"
                 /\ verdict.code = "consecutive_messages"
                 /\ verdict.at = <<Least(RepeatPositions(msgs)) - 1,
                                   Least(RepeatPositions(msgs))>>
                 /\ messages = msgs

C18_Witness ==
    /\ Validated(MODEL_REASONER)
    /\ Len(request.messages) = 3
    /\ request.messages[1].role = "user"
    /\ request.messages[2].role = "assistant"
    /\ request.messages[3].role = "assistant"
    /\ verdict.code = "consecutive_messages"
    /\ verdict.at = <<1, 2>>

\* Python positions of the turns whose role is neither user nor assistant.
BadRolePositions(msgs) ==
    {i \in 0..(Len(msgs) - 1) : msgs[i + 1].role \notin {"user", "assistant"}}

\* C19: for the reasoner model a list that starts with a user turn and
\* holds a turn with a role other than user/assistant is rejected with
\* invalid_role naming that turn's position, also when the list holds two
\* consecutive turns of the same role.
C19_RoleRuleFirst ==
    ( /\ Validated(MODEL_REASONER)
      /\ request.messages # <<>>
      /\ request.messages[1].role = "user"
      /\ BadRolePositions(request.messages) # {} )
    => /\ verdict.outcome = "rejected"
       /\ verdict.code = "invalid_role"
       /\ verdict.at = <<Least(BadRolePositions(request.messages))>>

----------------------------------------------------------------------------
(* Properties of the request handler (Spec) *)

Answered == pc # "idle"

\* C4: a request whose model is not in MODEL_ENDPOINTS (messages non-empty)
\* is answered 400 with an error field, with no upstream request and no
\* uncaught lookup failure.
C4_UnknownModelIs400 ==
    ( /\ Answered
      /\ request.model # ""
      /\ request.messages # <<>>
      /\ request.model \notin DOMAIN MODEL_ENDPOINTS )
    => /\ response.status = 400
       /\ "error" \in DOMAIN response.body
       /\ response.fault = ""
       /\ upstream_calls = 0

\* C5: for a known model and a non-empty list of turns, validation either
\* passes or the request is answered 400 with an error field and the
\* validator's rejection code, with no upstream request; validation never
\* ends in an unhandled fault.
C5_ValidationNeverFaults ==
    ( /\ Answered
      /\ request.model \in DOMAIN MODEL_ENDPOINTS
      /\ request.messages # <<>> )
    => /\ response.fault = ""
       /\ \/ verdict.outcome = "accepted"
          \/ /\ verdict.outcome = "rejected"
             /\ response.status = 400
             /\ "error" \in DOMAIN response.body
             /\ "code" \in DOMAIN response.body
             /\ response.body.code = verdict.code
             /\ upstream_calls = 0

C15_NonStreamingOutcome ==
    /\ ( /\ Answered
         /\ ~request.stream
         /\ request.model \in DOMAIN MODEL_ENDPOINTS
         /\ verdict.outcome = "accepted" )
       => upstream # <<>> /\ upstream_calls = 1
    /\ upstream # <<>> =>
         LET u == upstream[1] IN
         /\ upstream_calls = 1
         /\ response.fault = ""
         /\ (u.sent /\ u.status_code \in 200..299 /\ u.decodes)
            => /\ response.status = 200
               /\ response.body = [model |-> u.reply.model,
                                   message |-> u.reply.message, done |-> TRUE]
         /\ (u.sent /\ u.status_code \in 400..499)
            => response.status = 400 /\ "error" \in DOMAIN response.body
         /\ (u.sent /\ u.status_code \in 500..599)
            => response.status = 500 /\ "error" \in DOMAIN response.body
         /\ (~u.sent \/ (u.status_code \in 200..299 /\ ~u.decodes))
            => response.status = 500 /\ "error" \in DOMAIN response.body

C15_Witness ==
    /\ upstream # <<>>
    /\ upstream[1].sent
    /\ upstream[1].status_code = 500
    /\ response.status = 500

\* The request was accepted and its payload built.
Forwarded == pc \in {"responded", "streaming"} /\ payload # <<>>

\* C22: for a request that passes validation, the messages of the payload
\* forwarded upstream are exactly the turns the caller sent, in the same
\* order, for both models and both values of stream.
C22_PayloadIsCallersList ==
    Forwarded => payload[1].messages = request.messages

====
